---- MODULE Spec2Model ----
(***************************************************************************)
(* Model of the order-table validator of src/app.py: validate_row, the     *)
(* validation loop, the statistics, the Dashboard error analysis and the   *)
(* Errors page filter.                                                     *)
(*                                                                         *)
(* Text is modelled by TLA+ strings, handled with Len, SubSeq and \o.  The *)
(* texts of the cells of this model are written with the characters        *)
(* space, letters, digits, "+", "-", ".", "/" and "$".                     *)
(*                                                                         *)
(* A cell of the table is a record [k, s, n]:                              *)
(*   k = "nan"  an empty cell, which the table reader delivers as NaN;     *)
(*   k = "str"  a text cell with text s;                                   *)
(*   k = "num"  a numeric cell whose value is n tenths (n = -25 is -2.5).  *)
(***************************************************************************)
EXTENDS Integers, Sequences, FiniteSets, TLC

NaN == [k |-> "nan", s |-> "", n |-> 0]
Str(t) == [k |-> "str", s |-> t, n |-> 0]
Num(t) == [k |-> "num", s |-> "", n |-> t]

\* pd.isna(cell)
isna(cell) == cell.k = "nan"

-----------------------------------------------------------------------------
(* Text helpers: str.strip, str.find, str.split, str.join, "a in b".       *)

RECURSIVE lstrip(_)
lstrip(s) ==
    IF Len(s) > 0 /\ SubSeq(s, 1, 1) = " " THEN lstrip(Tail(s)) ELSE s

RECURSIVE rstrip(_)
rstrip(s) ==
    IF Len(s) > 0 /\ SubSeq(s, Len(s), Len(s)) = " "
    THEN rstrip(SubSeq(s, 1, Len(s) - 1))
    ELSE s

strip(s) == rstrip(lstrip(s))

\* index of the first occurrence of sep in s, 0 when there is none
find(s, sep) ==
    LET P == {p \in 1..(Len(s) - Len(sep) + 1) :
                 SubSeq(s, p, p + Len(sep) - 1) = sep}
    IN IF P = {} THEN 0 ELSE CHOOSE p \in P : \A q \in P : p <= q

\* err in x, for texts
contains(x, err) == find(x, err) # 0

RECURSIVE split(_, _)
split(s, sep) ==
    LET p == find(s, sep)
    IN IF p = 0
       THEN <<s>>
       ELSE <<SubSeq(s, 1, p - 1)>>
                \o split(SubSeq(s, p + Len(sep), Len(s)), sep)

RECURSIVE join(_, _)
join(sep, parts) ==
    IF Len(parts) = 0 THEN ""
    ELSE IF Len(parts) = 1 THEN parts[1]
    ELSE parts[1] \o sep \o join(sep, Tail(parts))

-----------------------------------------------------------------------------
(* Numeric literals: int(x) and float(x) of Python.                        *)

DigitChars == "0123456789"

IsDigit(c) == \E d \in 1..10 : SubSeq(DigitChars, d, d) = c

DigitVal(c) == (CHOOSE d \in 1..10 : SubSeq(DigitChars, d, d) = c) - 1

RECURSIVE AllDigits(_)
AllDigits(s) ==
    Len(s) = 0 \/ (IsDigit(SubSeq(s, 1, 1)) /\ AllDigits(Tail(s)))

RECURSIVE DigitsVal(_)
DigitsVal(s) ==
    IF Len(s) = 0 THEN 0
    ELSE DigitsVal(SubSeq(s, 1, Len(s) - 1)) * 10
             + DigitVal(SubSeq(s, Len(s), Len(s)))

RECURSIVE Pow10(_)
Pow10(e) == IF e = 0 THEN 1 ELSE 10 * Pow10(e - 1)

HasSign(t) == Len(t) > 0 /\ SubSeq(t, 1, 1) \in {"+", "-"}
IsMinus(t) == Len(t) > 0 /\ SubSeq(t, 1, 1) = "-"
Unsigned(t) == IF HasSign(t) THEN Tail(t) ELSE t

\* truncation toward zero of n / d, d > 0
Trunc(n, d) == IF n >= 0 THEN n \div d ELSE -((-n) \div d)

\* int(cell): [ok |-> FALSE] stands for the exception int() raises
int(cell) ==
    IF cell.k = "nan" THEN [ok |-> FALSE, v |-> 0]
    ELSE IF cell.k = "num" THEN [ok |-> TRUE, v |-> Trunc(cell.n, 10)]
    ELSE LET t == strip(cell.s)
             body == Unsigned(t)
         IN IF Len(body) > 0 /\ AllDigits(body)
            THEN [ok |-> TRUE,
                  v |-> IF IsMinus(t) THEN -DigitsVal(body) ELSE DigitsVal(body)]
            ELSE [ok |-> FALSE, v |-> 0]

\* float(cell): the value is num / den, or nan; den = 0 stands for +-inf
float(cell) ==
    IF cell.k = "nan"
    THEN [ok |-> TRUE, nan |-> TRUE, num |-> 0, den |-> 1]
    ELSE IF cell.k = "num"
    THEN [ok |-> TRUE, nan |-> FALSE, num |-> cell.n, den |-> 10]
    ELSE LET t == strip(cell.s)
             body == Unsigned(t)
             sgn == IF IsMinus(t) THEN -1 ELSE 1
             dot == find(body, ".")
             ip == IF dot = 0 THEN body ELSE SubSeq(body, 1, dot - 1)
             fp == IF dot = 0 THEN "" ELSE SubSeq(body, dot + 1, Len(body))
         IN IF body = "nan"
            THEN [ok |-> TRUE, nan |-> TRUE, num |-> 0, den |-> 1]
            ELSE IF body \in {"inf", "infinity"}
            THEN [ok |-> TRUE, nan |-> FALSE, num |-> sgn, den |-> 0]
            ELSE IF AllDigits(ip) /\ AllDigits(fp) /\ Len(ip) + Len(fp) > 0
            THEN [ok |-> TRUE, nan |-> FALSE,
                  num |-> sgn * (DigitsVal(ip) * Pow10(Len(fp)) + DigitsVal(fp)),
                  den |-> Pow10(Len(fp))]
            ELSE [ok |-> FALSE, nan |-> FALSE, num |-> 0, den |-> 1]

\* x < 0 for a value float() returned (false for nan and for -0.0)
FloatNegative(x) == ~x.nan /\ x.num < 0

-----------------------------------------------------------------------------
(* str(cell) and validate_date.                                            *)

RECURSIVE NatText(_)
NatText(v) ==
    IF v < 10 THEN SubSeq(DigitChars, v + 1, v + 1)
    ELSE NatText(v \div 10) \o SubSeq(DigitChars, (v % 10) + 1, (v % 10) + 1)

\* str(value) of a cell: the text itself, or the decimal text of a number
str(cell) ==
    IF cell.k = "str" THEN cell.s
    ELSE IF cell.k = "nan" THEN "nan"
    ELSE LET a == IF cell.n < 0 THEN -cell.n ELSE cell.n
         IN (IF cell.n < 0 THEN "-" ELSE "")
                \o NatText(a \div 10) \o "." \o NatText(a % 10)

\* the text a %d directive accepts: 1..31 written d, 0d, dd or " d"
IsDayField(t) ==
    \/ Len(t) = 1 /\ AllDigits(t) /\ DigitsVal(t) >= 1
    \/ Len(t) = 2 /\ AllDigits(t) /\ DigitsVal(t) \in 1..31
    \/ Len(t) = 2 /\ SubSeq(t, 1, 1) = " " /\ AllDigits(Tail(t))
           /\ DigitsVal(Tail(t)) >= 1

\* the text a %m directive accepts: 1..12 written m, 0m or mm
IsMonthField(t) ==
    \/ Len(t) = 1 /\ AllDigits(t) /\ DigitsVal(t) >= 1
    \/ Len(t) = 2 /\ AllDigits(t) /\ DigitsVal(t) \in 1..12

\* the text a %Y directive accepts: four digits
IsYearField(t) == Len(t) = 4 /\ AllDigits(t)

IsLeap(y) == (y % 4 = 0 /\ y % 100 # 0) \/ y % 400 = 0

DaysInMonth(y, m) ==
    IF m = 2 THEN (IF IsLeap(y) THEN 29 ELSE 28)
    ELSE IF m \in {4, 6, 9, 11} THEN 30 ELSE 31

\* datetime(y, m, d) exists
IsDate(y, m, d) == y >= 1 /\ m \in 1..12 /\ d >= 1 /\ d <= DaysInMonth(y, m)

\* datetime.strptime(s, fmt) succeeds; fmt is "%d/%m/%Y" or "%m-%d-%Y"
strptime(s, fmt) ==
    LET sep == SubSeq(fmt, 3, 3)
        dayFirst == SubSeq(fmt, 1, 2) = "%d"
        parts == split(s, sep)
        dt == IF dayFirst THEN parts[1] ELSE parts[2]
        mt == IF dayFirst THEN parts[2] ELSE parts[1]
    IN /\ Len(parts) = 3
       /\ IsDayField(dt)
       /\ IsMonthField(mt)
       /\ IsYearField(parts[3])
       /\ IsDate(DigitsVal(parts[3]), DigitsVal(mt), DigitsVal(strip(dt)))

formats == <<"%d/%m/%Y", "%m-%d-%Y">>

validate_date(value) ==
    \E f \in 1..Len(formats) : strptime(str(value), formats[f])

-----------------------------------------------------------------------------
(* validate_row: the five field checks, in the order of the code.          *)

\* order_id_step that forgets to add the identifier to the seen set
order_id_step_no_add(row, seen_ids) ==
    IF isna(row.order_id)
    THEN [errors |-> <<"Missing order_id">>, seen_ids |-> seen_ids]
    ELSE [errors |-> IF row.order_id \in seen_ids
                     THEN <<"Duplicate order_id">> ELSE <<>>,
          seen_ids |-> seen_ids]

\* order_id_step that looks the identifier up and adds it whether or not the
\* cell is empty
order_id_step_lookup_always(row, seen_ids) ==
    [errors |-> (IF isna(row.order_id) THEN <<"Missing order_id">> ELSE <<>>)
                    \o (IF row.order_id \in seen_ids
                        THEN <<"Duplicate order_id">> ELSE <<>>),
     seen_ids |-> seen_ids \cup {row.order_id}]

\* order_id: the reasons of the check and the seen set after it
order_id_step(row, seen_ids) ==
    IF isna(row.order_id)
    THEN [errors |-> <<"Missing order_id">>, seen_ids |-> seen_ids]
    ELSE [errors |-> IF row.order_id \in seen_ids
                     THEN <<"Duplicate order_id">> ELSE <<>>,
          seen_ids |-> seen_ids \cup {row.order_id}]

item_check(row) ==
    IF isna(row.item) \/ strip(str(row.item)) = ""
    THEN <<"Missing item">> ELSE <<>>

date_check(row) ==
    IF isna(row.date) \/ ~validate_date(row.date)
    THEN <<"Invalid date (dd/mm/yyyy or mm-dd-yyyy)">> ELSE <<>>

\* quantity_check that takes zero for a negative quantity
quantity_check_zero_negative(row) ==
    LET qty == int(row.quantity)
    IN IF ~qty.ok THEN <<"Invalid quantity">>
       ELSE IF qty.v <= 0 THEN <<"Negative quantity">> ELSE <<>>

quantity_check(row) ==
    LET qty == int(row.quantity)
    IN IF ~qty.ok THEN <<"Invalid quantity">>
       ELSE IF qty.v < 0 THEN <<"Negative quantity">> ELSE <<>>

price_check(row) ==
    LET price == float(row.price)
    IN IF ~price.ok THEN <<"Invalid price">>
       ELSE IF FloatNegative(price) THEN <<"Negative price">> ELSE <<>>

\* validate_row that stops at the first failing check
validate_row_first_failure(row, seen_ids) ==
    LET o == order_id_step(row, seen_ids)
        all == o.errors \o item_check(row) \o date_check(row)
                   \o quantity_check(row) \o price_check(row)
        errors == IF Len(all) > 0 THEN <<all[1]>> ELSE <<>>
    IN [status |-> IF Len(errors) > 0 THEN "Invalid" ELSE "Valid",
        msg |-> IF Len(errors) > 0 THEN join("; ", errors) ELSE "No errors",
        seen_ids |-> o.seen_ids,
        errors |-> errors]

\* validate_row that takes a row with a single reason for valid
validate_row_one_reason_valid(row, seen_ids) ==
    LET o == order_id_step(row, seen_ids)
        errors == o.errors \o item_check(row) \o date_check(row)
                      \o quantity_check(row) \o price_check(row)
    IN [status |-> IF Len(errors) > 1 THEN "Invalid" ELSE "Valid",
        msg |-> IF Len(errors) > 1 THEN join("; ", errors) ELSE "No errors",
        seen_ids |-> o.seen_ids,
        errors |-> errors]

\* the status and message validate_row returns, the seen set it leaves, and
\* its list errors
validate_row(row, seen_ids) ==
    LET o == order_id_step(row, seen_ids)
        errors == o.errors \o item_check(row) \o date_check(row)
                      \o quantity_check(row) \o price_check(row)
    IN [status |-> IF Len(errors) > 0 THEN "Invalid" ELSE "Valid",
        msg |-> IF Len(errors) > 0 THEN join("; ", errors) ELSE "No errors",
        seen_ids |-> o.seen_ids,
        errors |-> errors]

-----------------------------------------------------------------------------
(* The tables the model validates.                                         *)

Row(o, it, d, q, p) ==
    [order_id |-> o, item |-> it, date |-> d, quantity |-> q, price |-> p]

\* a row that passes every check, with identifier o
GoodRow(o) == Row(o, Str("pen"), Str("31/12/2024"), Num(50), Str("9.5"))

AllAbsentRow == Row(NaN, NaN, NaN, NaN, NaN)

\* rows of the tables of Spec
CoreRows ==
    { GoodRow(Str("A")), GoodRow(Str("B")), GoodRow(NaN),
      Row(Str("A"), NaN, Str("31/12/2024"), Num(50), Str("9.5")),
      Row(Str("B"), Str("pen"), Str("2024/12/31"), Str("-5"), Str("9.5")),
      AllAbsentRow,
      Row(Str("A"), Str("  "), Str("12-31-2024"), Str("abc"), Num(-25)),
      Row(Str(" "), Str("pen"), Str("31/12/2024"), Num(50), Str("$5")) }

\* the largest number of rows of a table of Spec
MaxRows == 3

RECURSIVE Tables(_, _)
Tables(rows, n) ==
    IF n = 0 THEN {<<>>}
    ELSE LET T == Tables(rows, n - 1)
         IN T \cup {Append(t, r) : t \in {u \in T : Len(u) = n - 1}, r \in rows}

\* cells of the rows of SpecRow
WideIds == {NaN, Str("A"), Str("B")}
WideItems == {NaN, Str("  "), Str("pen"), Str(" pen ")}
WideDates ==
    {NaN, Str("31/12/2024"), Str("12-31-2024"), Str("2024/12/31"),
     Str("29/02/2023"), Str(" 1/2/2024")}
WideQuantities ==
    {NaN, Str("abc"), Str("-5"), Str("5"), Str(" 7 "), Str("3.5"), Str("+0"),
     Num(37), Num(-50), Num(-5)}
WidePrices ==
    {NaN, Str("abc"), Str("-5"), Str("9.5"), Str(" 7.5 "), Str(".5"),
     Str("-0.0"), Str("$5"), Num(-25), Num(0)}

WideRows ==
    {Row(o, it, d, q, p) : o \in WideIds, it \in WideItems, d \in WideDates,
                           q \in WideQuantities, p \in WidePrices}

\* one row of WideRows, alone or after a valid row with identifier A
WideTables == {<<r>> : r \in WideRows} \cup {<<GoodRow(Str("A")), r>> : r \in WideRows}

-----------------------------------------------------------------------------
(* The run of the script on an uploaded table.                             *)

VARIABLES
    df,               \* the rows of the uploaded table, in table order
    seen_ids,         \* the identifiers validate_row has added
    statuses,         \* column status
    messages,         \* column error_message
    errors_log,       \* the list errors of each call of validate_row
    i,                \* number of rows the loop has processed
    pc,               \* "validate", "page", "dashboard" or "errors"
    total, valid, invalid, validation_rate,
    error_counts,     \* Dashboard: Counter(error_list)
    invalid_df,       \* Errors page: the invalid rows, as row numbers
    unique_errors,    \* Errors page: the options of the filter
    selected_errors,  \* Errors page: the selection of the filter
    filtered_df       \* Errors page: the rows shown, as row numbers

vars ==
    <<df, seen_ids, statuses, messages, errors_log, i, pc, total, valid,
      invalid, validation_rate, error_counts, invalid_df, unique_errors,
      selected_errors, filtered_df>>

Range(q) == {q[j] : j \in 1..Len(q)}

RECURSIVE Flatten(_)
Flatten(qs) == IF Len(qs) = 0 THEN <<>> ELSE Head(qs) \o Flatten(Tail(qs))

\* the state before the first row is validated
Start(t) ==
    /\ df = t
    /\ seen_ids = {}
    /\ statuses = <<>>
    /\ messages = <<>>
    /\ errors_log = <<>>
    /\ i = 0
    /\ pc = "validate"
    /\ total = 0
    /\ valid = 0
    /\ invalid = 0
    /\ validation_rate = [num |-> 0, den |-> 1]
    /\ error_counts = <<>>
    /\ invalid_df = <<>>
    /\ unique_errors = {}
    /\ selected_errors = {}
    /\ filtered_df = <<>>

Init == \E t \in Tables(CoreRows, MaxRows) : Start(t)

InitRow == \E t \in WideTables : Start(t)

\* the loop body putting each verdict in front of the earlier ones
ValidateNext_prepend ==
    /\ pc = "validate"
    /\ i < Len(df)
    /\ LET r == validate_row(df[i + 1], seen_ids)
       IN /\ seen_ids' = r.seen_ids
          /\ statuses' = <<r.status>> \o statuses
          /\ messages' = <<r.msg>> \o messages
          /\ errors_log' = <<r.errors>> \o errors_log
    /\ i' = i + 1
    /\ UNCHANGED <<df, pc, total, valid, invalid, validation_rate,
                   error_counts, invalid_df, unique_errors, selected_errors,
                   filtered_df>>

\* one iteration of the validation loop
ValidateNext ==
    /\ pc = "validate"
    /\ i < Len(df)
    /\ LET r == validate_row(df[i + 1], seen_ids)
       IN /\ seen_ids' = r.seen_ids
          /\ statuses' = Append(statuses, r.status)
          /\ messages' = Append(messages, r.msg)
          /\ errors_log' = Append(errors_log, r.errors)
    /\ i' = i + 1
    /\ UNCHANGED <<df, pc, total, valid, invalid, validation_rate,
                   error_counts, invalid_df, unique_errors, selected_errors,
                   filtered_df>>

\* the rate without the factor 100
rate_fraction(v, t) ==
    IF t > 0 THEN [num |-> v, den |-> t] ELSE [num |-> 0, den |-> 1]

\* (valid / total * 100) if total > 0 else 0, as the fraction num / den
rate(v, t) ==
    IF t > 0 THEN [num |-> v * 100, den |-> t] ELSE [num |-> 0, den |-> 1]

CountStatus(sts, st) == Cardinality({k \in 1..Len(sts) : sts[k] = st})

\* the loop is over: the columns are stored and the statistics computed
CalculateStats ==
    /\ pc = "validate"
    /\ i = Len(df)
    /\ total' = Len(df)
    /\ valid' = CountStatus(statuses, "Valid")
    /\ invalid' = CountStatus(statuses, "Invalid")
    /\ validation_rate' = rate(valid', total')
    /\ pc' = "page"
    /\ UNCHANGED <<df, seen_ids, statuses, messages, errors_log, i,
                   error_counts, invalid_df, unique_errors, selected_errors,
                   filtered_df>>

\* df[df["status"] == "Invalid"], as the row numbers in table order
invalid_rows(sts) ==
    LET IsInvalid(k) == sts[k] = "Invalid"
    IN SelectSeq([k \in 1..Len(sts) |-> k], IsInvalid)

\* split_messages splitting at ";" instead of "; "
split_messages_semicolon(inv, msgs) ==
    Flatten([j \in 1..Len(inv) |-> split(msgs[inv[j]], ";")])

\* the reasons of the messages of the rows inv, split and concatenated
split_messages(inv, msgs) ==
    Flatten([j \in 1..Len(inv) |-> split(msgs[inv[j]], "; ")])

Counter(list) ==
    [r \in Range(list) |-> Cardinality({j \in 1..Len(list) : list[j] = r})]

\* Dashboard, tab Error Analysis
Dashboard ==
    /\ pc = "page"
    /\ LET error_list == split_messages(invalid_rows(statuses), messages)
       IN error_counts' =
              IF Len(error_list) > 0 THEN Counter(error_list) ELSE error_counts
    /\ pc' = "dashboard"
    /\ UNCHANGED <<df, seen_ids, statuses, messages, errors_log, i, total,
                   valid, invalid, validation_rate, invalid_df, unique_errors,
                   selected_errors, filtered_df>>

\* filter_rows keeping a row only when it carries all the selected reasons
filter_rows_all(inv, msgs, sel) ==
    LET Keep(k) == \A err \in sel : contains(msgs[k], err)
    IN IF sel # {} THEN SelectSeq(inv, Keep) ELSE inv

\* filter_rows comparing the whole message with the selected reasons
filter_rows_equal(inv, msgs, sel) ==
    LET Keep(k) == msgs[k] \in sel
    IN IF sel # {} THEN SelectSeq(inv, Keep) ELSE inv

\* the rows of inv the filter keeps for the selection sel
filter_rows(inv, msgs, sel) ==
    LET Keep(k) == \E err \in sel : contains(msgs[k], err)
    IN IF sel # {} THEN SelectSeq(inv, Keep) ELSE inv

\* Errors page without invalid rows
ErrorsPageAllValid ==
    /\ pc = "page"
    /\ invalid_rows(statuses) = <<>>
    /\ invalid_df' = <<>>
    /\ pc' = "errors"
    /\ UNCHANGED <<df, seen_ids, statuses, messages, errors_log, i, total,
                   valid, invalid, validation_rate, error_counts,
                   unique_errors, selected_errors, filtered_df>>

\* Errors page with invalid rows: the user selects among the options
ErrorsPage ==
    /\ pc = "page"
    /\ invalid_rows(statuses) # <<>>
    /\ invalid_df' = invalid_rows(statuses)
    /\ unique_errors' = Range(split_messages(invalid_df', messages))
    /\ \E sel \in SUBSET unique_errors' :
           /\ selected_errors' = sel
           /\ filtered_df' = filter_rows(invalid_df', messages, sel)
    /\ pc' = "errors"
    /\ UNCHANGED <<df, seen_ids, statuses, messages, errors_log, i, total,
                   valid, invalid, validation_rate, error_counts>>

\* every text that validate_row can give as a reason
Reasons ==
    {"Missing order_id", "Duplicate order_id", "Missing item",
     "Invalid date (dd/mm/yyyy or mm-dd-yyyy)", "Negative quantity",
     "Invalid quantity", "Negative price", "Invalid price"}

Next ==
    \/ ValidateNext
    \/ CalculateStats
    \/ Dashboard
    \/ ErrorsPageAllValid
    \/ ErrorsPage

Spec == Init /\ [][Next]_vars

SpecRow == InitRow /\ [][Next]_vars

TypeOK ==
    /\ i \in 0..Len(df)
    /\ pc \in {"validate", "page", "dashboard", "errors"}
    /\ Len(statuses) = i

-----------------------------------------------------------------------------
(* Properties.                                                             *)

Present(k) == df[k].order_id.k # "nan"

EarlierSame(k) == \E j \in 1..(k - 1) : df[j].order_id = df[k].order_id

\* the identifiers of the non-empty order_id cells before row k
SeenBefore(k) == {df[j].order_id : j \in {h \in 1..(k - 1) : Present(h)}}

HasReason(k, r) == r \in Range(errors_log[k])

\* the rows with status Invalid, as a set of row numbers
InvalidSet == {k \in 1..Len(statuses) : statuses[k] = "Invalid"}

\* the rows that carry reason r
Carriers(r) == {k \in InvalidSet : HasReason(k, r)}

\* C1: a row with a present identifier has the reason "Duplicate order_id"
\* exactly when an earlier row of the run has the same identifier.
C1_DuplicateIffSeenEarlier ==
    \A k \in 1..i :
        Present(k) => (HasReason(k, "Duplicate order_id") <=> EarlierSame(k))

\* identifiers [X, X, Y]: only the second row is flagged
C1_Witness ==
    /\ i = 3
    /\ Present(1) /\ Present(3)
    /\ df[2].order_id = df[1].order_id
    /\ df[3].order_id # df[1].order_id
    /\ ~HasReason(1, "Duplicate order_id")
    /\ HasReason(2, "Duplicate order_id")
    /\ ~HasReason(3, "Duplicate order_id")

C2_MissingState ==
    \A k \in 1..i :
        ~Present(k) => /\ HasReason(k, "Missing order_id")
                       /\ ~HasReason(k, "Duplicate order_id")

C2_SeenUnchanged ==
    (pc = "validate" /\ i < Len(df) /\ df[i + 1].order_id.k = "nan" /\ i' = i + 1)
        => seen_ids' = seen_ids

C3_OneVerdictPerRowInOrder ==
    /\ Len(statuses) = i /\ Len(messages) = i
    /\ pc # "validate" =>
           /\ Len(statuses) = Len(df) /\ Len(messages) = Len(df)
           /\ \A k \in 1..Len(df) :
                  LET v == validate_row(df[k], SeenBefore(k))
                  IN statuses[k] = v.status /\ messages[k] = v.msg

\* a finished run over rows with different verdicts
C3_Witness ==
    /\ pc = "page"
    /\ Len(df) >= 2
    /\ statuses[1] # statuses[2]
    /\ messages[Len(df)] # messages[1]

\* the field a reason belongs to: 1 identifier, 2 item, 3 date, 4 quantity,
\* 5 price
FieldOf(r) ==
    IF r \in {"Missing order_id", "Duplicate order_id"} THEN 1
    ELSE IF r = "Missing item" THEN 2
    ELSE IF r = "Invalid date (dd/mm/yyyy or mm-dd-yyyy)" THEN 3
    ELSE IF r \in {"Invalid quantity", "Negative quantity"} THEN 4
    ELSE IF r \in {"Invalid price", "Negative price"} THEN 5
    ELSE 0

\* the reasons of the failing checks of row k
FailingReasons(k) ==
    Range(order_id_step(df[k], SeenBefore(k)).errors)
        \cup Range(item_check(df[k])) \cup Range(date_check(df[k]))
        \cup Range(quantity_check(df[k])) \cup Range(price_check(df[k]))

\* C4: the reasons of a row are the reasons of all its failing checks, in
\* the order identifier, item, date, quantity, price.
C4_AllFailingChecksInOrder ==
    \A k \in 1..i :
        /\ Range(errors_log[k]) = FailingReasons(k)
        /\ \A a, b \in 1..Len(errors_log[k]) :
               a < b => /\ FieldOf(errors_log[k][a]) >= 1
                        /\ FieldOf(errors_log[k][a]) < FieldOf(errors_log[k][b])

\* a row that fails the check of every field
C4_Witness ==
    \E k \in 1..i :
        /\ Len(errors_log[k]) = 5
        /\ messages[k] = join("; ", errors_log[k])

\* C5: a row whose five cells are empty is Invalid with a reason for the
\* identifier, the item, the date, the quantity and the price.
C5_AllAbsentRowHasFiveReasons ==
    \A k \in 1..i :
        df[k] = AllAbsentRow =>
            /\ statuses[k] = "Invalid"
            /\ \A f \in 1..5 : \E r \in Range(errors_log[k]) : FieldOf(r) = f

\* C6, as claimed: the rate is valid / total when total > 0, and 0 for no
\* rows.
C6_RateIsFraction ==
    pc # "validate" =>
        /\ total > 0 => validation_rate.num * total = valid * validation_rate.den
        /\ total = 0 => validation_rate.num = 0

\* C6, amended: the rate is the percentage valid / total * 100 when
\* total > 0, and 0 for no rows.
C6_RateIsPercentage ==
    pc # "validate" =>
        /\ total = Len(df)
        /\ valid = Cardinality({k \in 1..Len(df) : statuses[k] = "Valid"})
        /\ total > 0 =>
               validation_rate.num * total = 100 * valid * validation_rate.den
        /\ total = 0 => validation_rate.num = 0

\* a finished run with valid and invalid rows
C6_Witness ==
    /\ pc = "page"
    /\ valid > 0 /\ valid < total
    /\ validation_rate.den = total

\* the invalid rows that carry a reason of sel, in table order
RowsWithSelected(sel) ==
    LET Hit(k) == statuses[k] = "Invalid" /\ Range(errors_log[k]) \cap sel # {}
    IN SelectSeq([k \in 1..Len(df) |-> k], Hit)

\* C7, as claimed: for every selection, the filter returns, in table order,
\* the invalid rows that carry a selected reason.
C7_FilterIsUnionForEverySelection ==
    (pc = "errors" /\ InvalidSet # {}) =>
        filtered_df = RowsWithSelected(selected_errors)

\* C7, amended: for a non-empty selection the filter returns, in table
\* order, the invalid rows that carry a selected reason; for the empty
\* selection it returns all the invalid rows.
C7_FilterIsUnionForNonEmptySelection ==
    (pc = "errors" /\ InvalidSet # {}) =>
        /\ selected_errors # {} =>
               filtered_df = RowsWithSelected(selected_errors)
        /\ selected_errors = {} => filtered_df = RowsWithSelected(Reasons)

\* a selection that keeps a row with a reason outside the selection and
\* drops another row
C7_Witness ==
    /\ pc = "errors"
    /\ selected_errors # {}
    /\ \E k \in Range(filtered_df) : ~(Range(errors_log[k]) \subseteq selected_errors)
    /\ \E k \in InvalidSet : k \notin Range(filtered_df)

\* C8: the filters of the keys of the error-frequency report, taken
\* together, return all the invalid rows.
C8_FiltersOfAllKeysCoverInvalidRows ==
    pc = "dashboard" =>
        UNION {Range(filter_rows(invalid_rows(statuses), messages, {key})) :
                   key \in DOMAIN error_counts} = InvalidSet

\* a report with several keys, one of which selects only part of the rows
C8_Witness ==
    /\ pc = "dashboard"
    /\ Cardinality(DOMAIN error_counts) >= 2
    /\ \E key \in DOMAIN error_counts :
           LET f == Range(filter_rows(invalid_rows(statuses), messages, {key}))
           IN f # {} /\ f # InvalidSet
    /\ \E k \in InvalidSet : Len(errors_log[k]) >= 2

\* C9: splitting the message of an invalid row gives back its list of
\* reasons; the report counts, for each reason, the invalid rows that carry
\* it, and nothing else.
C9_ReportCountsReasonsOfInvalidRows ==
    /\ \A k \in InvalidSet : split(messages[k], "; ") = errors_log[k]
    /\ pc = "dashboard" =>
           /\ DOMAIN error_counts = {r \in Reasons : Carriers(r) # {}}
           /\ \A r \in DOMAIN error_counts :
                  error_counts[r] = Cardinality(Carriers(r))

\* a report over valid and invalid rows, with a reason counted twice
C9_Witness ==
    /\ pc = "dashboard"
    /\ \E k \in 1..Len(df) : statuses[k] = "Valid"
    /\ \E r \in DOMAIN error_counts : error_counts[r] >= 2
    /\ \E k \in InvalidSet : Len(errors_log[k]) >= 3

\* C10: an unparseable quantity or price gives the Invalid reason and not
\* the Negative one, a negative one gives the Negative reason and not the
\* Invalid one, one that is >= 0 gives neither, and no row has both.
C10_NegativeOnlyAfterParse ==
    \A k \in 1..i :
        LET q == int(df[k].quantity)
            p == float(df[k].price)
            iq == HasReason(k, "Invalid quantity")
            nq == HasReason(k, "Negative quantity")
            ip == HasReason(k, "Invalid price")
            np == HasReason(k, "Negative price")
        IN /\ ~q.ok => (iq /\ ~nq)
           /\ (q.ok /\ q.v < 0) => (nq /\ ~iq)
           /\ (q.ok /\ q.v >= 0) => (~nq /\ ~iq)
           /\ ~p.ok => (ip /\ ~np)
           /\ (p.ok /\ ~p.nan /\ p.num < 0) => (np /\ ~ip)
           /\ (p.ok /\ ~p.nan /\ p.num >= 0) => (~np /\ ~ip)
           /\ ~(iq /\ nq) /\ ~(ip /\ np)

\* a row with an unparseable quantity and a negative price
C10_Witness ==
    \E k \in 1..i :
        /\ ~int(df[k].quantity).ok
        /\ float(df[k].price).num < 0
        /\ errors_log[k] = <<"Invalid quantity", "Negative price">>

\* C11: the status of a row is Valid exactly when its list of reasons is
\* empty, and Invalid exactly when it has at least one reason.
C11_ValidIffNoReasons ==
    \A k \in 1..i :
        /\ statuses[k] \in {"Valid", "Invalid"}
        /\ statuses[k] = "Valid" <=> errors_log[k] = <<>>
        /\ statuses[k] = "Invalid" <=> Len(errors_log[k]) >= 1

\* a valid row without reasons followed by an invalid row with one reason
C11_Witness ==
    /\ i = 2
    /\ statuses[1] = "Valid" /\ errors_log[1] = <<>>
    /\ statuses[2] = "Invalid" /\ Len(errors_log[2]) = 1

====
